---------------------------- MODULE Spec2Model ----------------------------
(***************************************************************************)
(* A model of instlatx64-vtfeatures: the AIDA CPUID dump parser            *)
(* (src/src/aida_parse.rs), the CPU information traits                     *)
(* (src/src/cpu_information.rs, src/src/traits.rs), the feature            *)
(* expression evaluator (src/src/features.rs) and the MSR-only feature     *)
(* tool (src/src/main.rs).                                                 *)
(*                                                                         *)
(* Machine integers are kept at their width.  TLC's integers are 32-bit    *)
(* signed, so a u32 is a sequence of 8 hex digits and a u64 a sequence of  *)
(* 16 hex digits (values 0..15), most significant digit first.  Text is a  *)
(* sequence of one-character strings.                                      *)
(***************************************************************************)
EXTENDS Integers, Sequences, FiniteSets, TLC

VARIABLES
    info,       \* evaluator: the data source (a dyn CpuInformation)
    expr,       \* evaluator: the BoolExpression under construction
    result,     \* evaluator: the outcome of the last evaluate, or NotRun
    input,      \* parser: the lines of the dump text (s.lines())
    dump,       \* parser: the outcome of AidaCpuidDump::from_str, or NotRun
    line,       \* line classifier: one line of text
    parsed,     \* line classifier: the outcome of InputLine::from_str, or NotRun
    hexIn,      \* hex conversion: the pieces of the text handed to hex_as_u32 / hex_as_u64
    hexOut,     \* hex conversion: the outcomes of both conversions, or NotRun
    cpu,        \* model name: the data source (a CpuInformation)
    model,      \* model name: the outcome of model_bytes, or NotRun
    msr_values, \* MSR tool: the parsed MSR values (a Vec<MsrValue>)
    feature,    \* MSR tool: the must_match list of the Feature under test
    present     \* MSR tool: the outcome of has_feature and its character, or NotRun

evalVars == <<info, expr, result>>

dumpVars == <<input, dump>>

lineVars == <<line, parsed>>

hexVars == <<hexIn, hexOut>>

modelVars == <<cpu, model>>

featVars == <<msr_values, feature, present>>

vars == <<evalVars, dumpVars, lineVars, hexVars, modelVars, featVars>>

-----------------------------------------------------------------------------
(* Outcomes.  An Option<T> is None or Some(v); a panic (a failed assert!    *)
(* or expect) is its own outcome.                                           *)

NotRun == [tag |-> "NotRun"]
None == [tag |-> "None"]
Panic == [tag |-> "Panic"]
Some(v) == [tag |-> "Some", val |-> v]

-----------------------------------------------------------------------------
(* Fixed-width unsigned integers as hex digit sequences.                    *)

U32_BITS == 32
U64_BITS == 64

Pow2(k) == CASE k = 0 -> 1 [] k = 1 -> 2 [] k = 2 -> 4 [] OTHER -> 8

\* The number of hex digits of a w-bit integer.
Digits(w) == w \div 4

Zero(w) == [i \in 1..Digits(w) |-> 0]

\* Bit k (0..3) of hex digit d.
DigitBit(d, k) == (d \div Pow2(k)) % 2

\* a & b on fixed-width integers of the same width.
BitAnd(a, b) ==
    [i \in 1..Len(a) |->
        DigitBit(a[i], 0) * DigitBit(b[i], 0)
        + 2 * DigitBit(a[i], 1) * DigitBit(b[i], 1)
        + 4 * DigitBit(a[i], 2) * DigitBit(b[i], 2)
        + 8 * DigitBit(a[i], 3) * DigitBit(b[i], 3)]

\* 1 << bit at width w, for bit < w (the asserts of evaluate guarantee it).
ShlOne(w, bit) ==
    [i \in 1..Digits(w) |-> IF i = Digits(w) - (bit \div 4) THEN Pow2(bit % 4) ELSE 0]


-----------------------------------------------------------------------------
(* The data model (cpu_information.rs).                                     *)

CpuidQuery(leaf, subleaf) == [leaf |-> leaf, subleaf |-> subleaf]

CpuidResult(eax, ebx, ecx, edx) == [eax |-> eax, ebx |-> ebx, ecx |-> ecx, edx |-> edx]

\* CpuidResult::get
get(r, reg) ==
    CASE reg = "Eax" -> r.eax
      [] reg = "Ebx" -> r.ebx
      [] reg = "Ecx" -> r.ecx
      [] reg = "Edx" -> r.edx

(* A data source is what the CpuInformation trait shows of it: for every    *)
(* query an Option<CpuidResult>, for every index an Option<u64>.            *)
cpuid(cpu_info, query) == cpu_info.cpuid[query]

rdmsr(cpu_info, index) == cpu_info.rdmsr[index]

(* The trait method evaluate calls to ask whether a leaf is supported.  Its *)
(* body is not among the sources; the specification's evaluator rules know  *)
(* two cases only, the leaf absent from the data source (the bit counts as  *)
(* unset) and the leaf present.                                             *)
is_cpuid_query_valid(cpu_info, query) == cpuid(cpu_info, query) # None

-----------------------------------------------------------------------------
(* The expression language (features.rs).                                   *)

CpuidBitSet(query, reg, bit) == [op |-> "CpuidBitSet", query |-> query, reg |-> reg, bit |-> bit]

MsrBitSet(index, bit) == [op |-> "MsrBitSet", index |-> index, bit |-> bit]

\* BitAnd::bitand, BitOr::bitor, Not::not build the combinators.
bitand(self, rhs) == [op |-> "And", expr1 |-> self, expr2 |-> rhs]

bitor(self, rhs) == [op |-> "Or", expr1 |-> self, expr2 |-> rhs]

not(self) == [op |-> "Not", expr |-> self]

\* EvalCpuidBitSet with an unsupported leaf reported as unknown instead of unset.
EvalCpuidBitSetAbsentUnknown(e, cpu_info) ==
    IF ~(e.bit < U32_BITS) THEN Panic
    ELSE LET r == cpuid(cpu_info, e.query)
         IN  IF r = None THEN None
             ELSE Some(BitAnd(get(r.val, e.reg), ShlOne(U32_BITS, e.bit)) # Zero(U32_BITS))

\* The CpuidBitSet arm of evaluate.
EvalCpuidBitSet(e, cpu_info) ==
    IF ~(e.bit < U32_BITS) THEN Panic
    ELSE IF is_cpuid_query_valid(cpu_info, e.query)
    THEN LET r == cpuid(cpu_info, e.query)
         IN  IF r = None THEN None
             ELSE Some(BitAnd(get(r.val, e.reg), ShlOne(U32_BITS, e.bit)) # Zero(U32_BITS))
    ELSE Some(FALSE)

\* EvalMsrBitSet with the mask 1 << bit computed at 32 bits and zero-extended.
EvalMsrBitSetNarrowMask(e, cpu_info) ==
    IF ~(e.bit < U64_BITS) THEN Panic
    ELSE LET v == rdmsr(cpu_info, e.index)
             mask == IF e.bit < U32_BITS
                     THEN Zero(U32_BITS) \o ShlOne(U32_BITS, e.bit)
                     ELSE Zero(U64_BITS)
         IN  IF v = None THEN None
             ELSE Some(BitAnd(v.val, mask) # Zero(U64_BITS))

\* The MsrBitSet arm of evaluate.
EvalMsrBitSet(e, cpu_info) ==
    IF ~(e.bit < U64_BITS) THEN Panic
    ELSE LET v == rdmsr(cpu_info, e.index)
         IN  IF v = None THEN None
             ELSE Some(BitAnd(v.val, ShlOne(U64_BITS, e.bit)) # Zero(U64_BITS))

(* a? && b? : the first operand is evaluated and its None or panic returned; *)
(* && evaluates its right operand only when the left one is true.            *)
EvalAnd(a, b) ==
    IF a.tag # "Some" THEN a
    ELSE IF ~a.val THEN Some(FALSE)
    ELSE b

\* a? || b? : || evaluates its right operand only when the left one is false.
EvalOr(a, b) ==
    IF a.tag # "Some" THEN a
    ELSE IF a.val THEN Some(TRUE)
    ELSE b

EvalNot(a) == IF a.tag # "Some" THEN a ELSE Some(~a.val)

RECURSIVE evaluate(_, _)
\* BoolExpression::evaluate
evaluate(e, cpu_info) ==
    CASE e.op = "CpuidBitSet" -> EvalCpuidBitSet(e, cpu_info)
      [] e.op = "MsrBitSet" -> EvalMsrBitSet(e, cpu_info)
      [] e.op = "And" -> EvalAnd(evaluate(e.expr1, cpu_info), evaluate(e.expr2, cpu_info))
      [] e.op = "Or" -> EvalOr(evaluate(e.expr1, cpu_info), evaluate(e.expr2, cpu_info))
      [] e.op = "Not" -> EvalNot(evaluate(e.expr, cpu_info))

\* Feature::is_present
is_present(e, cpu_info) == evaluate(e, cpu_info)

-----------------------------------------------------------------------------
(* The evaluator's inputs: data sources over two queries and one MSR, bit   *)
(* tests of the first and last bit of each width and of the first bit past  *)
(* it, and combinators up to MaxDepth deep.                                 *)

MaxDepth == 2

W32(a, b, c, d, e, f, g, h) == <<a, b, c, d, e, f, g, h>>

EvalQuery1 == CpuidQuery(W32(0,0,0,0,0,0,0,1), Zero(U32_BITS))

EvalQuery7 == CpuidQuery(W32(0,0,0,0,0,0,0,7), Zero(U32_BITS))

\* eax 0x00000001, ebx 0x80000000, ecx 0x7FFFFFFE, edx 0xFFFFFFFF
EvalResultA ==
    CpuidResult(W32(0,0,0,0,0,0,0,1), W32(8,0,0,0,0,0,0,0),
                W32(7,15,15,15,15,15,15,14), W32(15,15,15,15,15,15,15,15))

\* eax 0x80000000, ebx 0x00000000, ecx 0x00000001, edx 0x7FFFFFFE
EvalResultB ==
    CpuidResult(W32(8,0,0,0,0,0,0,0), W32(0,0,0,0,0,0,0,0),
                W32(0,0,0,0,0,0,0,1), W32(7,15,15,15,15,15,15,14))

EvalMsrIndex == W32(0,0,0,0,0,4,8,11)

\* 0x8000_0001_0000_0000
EvalMsrValue == <<8,0,0,0, 0,0,0,1, 0,0,0,0, 0,0,0,0>>

Options(S) == {None} \cup {Some(v) : v \in S}

EvalInfos ==
    { [cpuid |-> (EvalQuery1 :> c1) @@ (EvalQuery7 :> c7), rdmsr |-> (EvalMsrIndex :> m)] :
        c1 \in Options({EvalResultA, EvalResultB}),
        c7 \in Options({EvalResultA}),
        m \in Options({EvalMsrValue}) }

EvalLeaves ==
    { CpuidBitSet(EvalQuery1, reg, bit) : reg \in {"Eax", "Ebx", "Ecx", "Edx"}, bit \in {0, 31} }
    \cup { CpuidBitSet(EvalQuery1, "Eax", 32),
           CpuidBitSet(EvalQuery7, "Eax", 0),
           CpuidBitSet(EvalQuery7, "Ebx", 31) }
    \cup { MsrBitSet(EvalMsrIndex, bit) : bit \in {0, 32, 63, 64} }

\* The expressions a combinator is built with, besides the one at hand.
EvalOperands == { CpuidBitSet(EvalQuery1, "Eax", 0), MsrBitSet(EvalMsrIndex, 0) }

RECURSIVE Depth(_)
Depth(e) ==
    CASE e.op \in {"And", "Or"} ->
            1 + (IF Depth(e.expr1) > Depth(e.expr2) THEN Depth(e.expr1) ELSE Depth(e.expr2))
      [] e.op = "Not" -> 1 + Depth(e.expr)
      [] OTHER -> 0

\* The evaluator's variables while another component is exercised.
EvalIdle ==
    /\ info = [cpuid |-> <<>>, rdmsr |-> <<>>]
    /\ expr = NotRun
    /\ result = NotRun

DumpIdle ==
    /\ input = <<>>
    /\ dump = NotRun

LineIdle ==
    /\ line = <<>>
    /\ parsed = NotRun

HexIdle ==
    /\ hexIn = <<>>
    /\ hexOut = NotRun

ModelIdle ==
    /\ cpu = [cpuid |-> <<>>, rdmsr |-> <<>>]
    /\ model = NotRun

FeatIdle ==
    /\ msr_values = <<>>
    /\ feature = <<>>
    /\ present = NotRun

EvalInit ==
    /\ info \in EvalInfos
    /\ expr \in EvalLeaves
    /\ result = NotRun
    /\ DumpIdle
    /\ LineIdle
    /\ HexIdle
    /\ ModelIdle
    /\ FeatIdle

\* expr & other, other & expr
And ==
    /\ result = NotRun
    /\ Depth(expr) < MaxDepth
    /\ \E other \in EvalOperands :
        \/ expr' = bitand(expr, other)
        \/ expr' = bitand(other, expr)
    /\ UNCHANGED <<info, result, dumpVars, lineVars, hexVars, modelVars, featVars>>

\* expr | other, other | expr
Or ==
    /\ result = NotRun
    /\ Depth(expr) < MaxDepth
    /\ \E other \in EvalOperands :
        \/ expr' = bitor(expr, other)
        \/ expr' = bitor(other, expr)
    /\ UNCHANGED <<info, result, dumpVars, lineVars, hexVars, modelVars, featVars>>

\* !expr
Not ==
    /\ result = NotRun
    /\ Depth(expr) < MaxDepth
    /\ expr' = not(expr)
    /\ UNCHANGED <<info, result, dumpVars, lineVars, hexVars, modelVars, featVars>>

\* Feature::is_present(cpu_info)
Evaluate ==
    /\ result = NotRun
    /\ result' = is_present(expr, info)
    /\ UNCHANGED <<info, expr, dumpVars, lineVars, hexVars, modelVars, featVars>>

EvalNext == And \/ Or \/ Not \/ Evaluate

EvalSpec == EvalInit /\ [][EvalNext]_vars

-----------------------------------------------------------------------------
(* Properties of the evaluator, checked under EvalSpec.                     *)

\* Whether bit k of the fixed-width integer x is 1.
BitIsSet(x, k) == DigitBit(x[Len(x) - (k \div 4)], k % 4) = 1

RegisterField == [Eax |-> "eax", Ebx |-> "ebx", Ecx |-> "ecx", Edx |-> "edx"]

(* C1: for every And(a, b) and Or(a, b) and every data source, if either    *)
(* operand evaluates to unknown (None), evaluate returns unknown, whatever  *)
(* the other operand's value and whatever the operand order.                *)
C1_UnknownOperandGivesUnknown ==
    (result # NotRun /\ expr.op \in {"And", "Or"}) =>
        LET a == evaluate(expr.expr1, info)
            b == evaluate(expr.expr2, info)
        IN  (a # Panic /\ b # Panic /\ (a = None \/ b = None)) => result = None

C3_MsrBitTest ==
    (result # NotRun /\ expr.op = "MsrBitSet" /\ expr.bit \in 0..63) =>
        LET value == info.rdmsr[expr.index]
        IN  IF value = None
            THEN result = None
            ELSE result = Some(BitIsSet(value.val, expr.bit))

\* C3's case: bit 63 tested on the value 0x8000_0001_0000_0000.
C3_Witness ==
    /\ expr = MsrBitSet(EvalMsrIndex, 63)
    /\ info.rdmsr[EvalMsrIndex] = Some(EvalMsrValue)
    /\ result = Some(TRUE)

-----------------------------------------------------------------------------
(* Hex conversion (aida_parse.rs).                                          *)

\* char::to_digit(16)
HexDigitValue ==
    ("0" :> 0) @@ ("1" :> 1) @@ ("2" :> 2) @@ ("3" :> 3) @@ ("4" :> 4) @@ ("5" :> 5) @@ ("6" :> 6) @@ ("7" :> 7) @@ ("8" :> 8) @@ ("9" :> 9) @@
    ("a" :> 10) @@ ("b" :> 11) @@ ("c" :> 12) @@ ("d" :> 13) @@ ("e" :> 14) @@ ("f" :> 15) @@
    ("A" :> 10) @@ ("B" :> 11) @@ ("C" :> 12) @@ ("D" :> 13) @@ ("E" :> 14) @@ ("F" :> 15)

\* The regex class [0-9a-fA-F].
HexChars == DOMAIN HexDigitValue

RECURSIVE ParseDigits(_, _)
(* The digit loop of from_str_radix(_, 16): for each character,             *)
(* result = result.checked_mul(16)?.checked_add(digit)?.  Multiplying by 16 *)
(* overflows exactly when the top hex digit is not 0; the sum cannot.       *)
ParseDigits(acc, src) ==
    IF src = <<>> THEN Some(acc)
    ELSE IF Head(src) \notin HexChars THEN None
    ELSE IF acc[1] # 0 THEN None
    ELSE ParseDigits(Tail(acc) \o <<HexDigitValue[Head(src)]>>, Tail(src))

(* uN::from_str_radix(src, 16) for a w-bit unsigned N: an error (None) for  *)
(* the empty string, a lone sign, a character that is no digit, and a value *)
(* that does not fit; a leading + is accepted.                              *)
from_str_radix(src, w) ==
    IF src = <<>> THEN None
    ELSE IF Head(src) = "+"
    THEN (IF Len(src) = 1 THEN None ELSE ParseDigits(Zero(w), Tail(src)))
    ELSE ParseDigits(Zero(w), src)

\* RemoveDashes that strips the dashes at both ends only (trim_matches('-')).
TrimDashes(text) ==
    LET keep == {i \in 1..Len(text) : text[i] # "-"}
    IN  IF keep = {} THEN <<>>
        ELSE SubSeq(text, CHOOSE i \in keep : \A j \in keep : i <= j,
                          CHOOSE i \in keep : \A j \in keep : j <= i)

\* input.chars().filter(|&c| c != '-').collect::<String>()
RemoveDashes(text) == SelectSeq(text, LAMBDA c : c # "-")

\* hex_as_u32: Some(value), or the panic of expect.
hex_as_u32(text) ==
    LET r == from_str_radix(RemoveDashes(text), U32_BITS)
    IN  IF r = None THEN Panic ELSE r

\* hex_as_u64: Some(value), or the panic of expect.
hex_as_u64(text) ==
    LET r == from_str_radix(RemoveDashes(text), U64_BITS)
    IN  IF r = None THEN Panic ELSE r

-----------------------------------------------------------------------------
(* Line classification (aida_parse.rs).                                     *)

StartsWith(text, prefix) ==
    /\ Len(text) >= Len(prefix)
    /\ SubSeq(text, 1, Len(prefix)) = prefix

EndsWith(text, suffix) ==
    /\ Len(text) >= Len(suffix)
    /\ SubSeq(text, Len(text) - Len(suffix) + 1, Len(text)) = suffix

AllHex(text) == \A i \in 1..Len(text) : text[i] \in HexChars

RECURSIVE HexRun(_, _)
\* The number of characters of [0-9a-fA-F] from position i on.
HexRun(text, i) ==
    IF i <= Len(text) /\ text[i] \in HexChars THEN 1 + HexRun(text, i + 1) ELSE 0

\* The widths the regular expressions fix: {8}, {2} and {19}.
REGISTER_DIGITS == 8
SUBLEAF_DIGITS == 2
MSR_VALUE_CHARS == 19

HeaderOpen == <<"-", "-", "-", "-", "-", "-", "[", " ">>

HeaderClose == <<" ", "]", "-", "-", "-", "-", "-", "-">>

(* GROUP_HEADER_RE: "------[ ", one or more characters (1), " ]------" and *)
(* the end of the line.  The capture is greedy: it is what lies between the *)
(* opening and the last closing.                                            *)
try_match_group_header(text) ==
    IF /\ Len(text) >= Len(HeaderOpen) + 1 + Len(HeaderClose)
       /\ StartsWith(text, HeaderOpen)
       /\ EndsWith(text, HeaderClose)
    THEN Some([kind |-> "GroupHeader",
               name |-> SubSeq(text, Len(HeaderOpen) + 1, Len(text) - Len(HeaderClose))])
    ELSE None

CpuidOpen == <<"C", "P", "U", "I", "D", " ">>

MsrOpen == <<"M", "S", "R", " ">>

ColonSpace == <<":", " ">>

SubleafOpen == <<" ", "[", "S", "L", " ">>

(* The captures of CPUID_RE as a record, or None when the line does not     *)
(* match: "CPUID ", one or more hex digits (1), ": ", four groups of 8 hex  *)
(* digits (2-5) separated by "-", and then either " [SL ", 2 hex digits     *)
(* (6), "]" and the end of the line, or anything up to the end of the line. *)
(* Capture 6 is set only when the first alternative matches, which needs    *)
(* the line to end right after the closing bracket.                         *)
CpuidCaptures(text) ==
    LET n == HexRun(text, Len(CpuidOpen) + 1)
        o == Len(CpuidOpen) + n + Len(ColonSpace)
        r == REGISTER_DIGITS
        reg(k) == SubSeq(text, o + (k - 1) * (r + 1) + 1, o + (k - 1) * (r + 1) + r)
        last == o + 4 * r + 3
        rest == SubSeq(text, last + 1, Len(text))
        sl == /\ Len(rest) = Len(SubleafOpen) + SUBLEAF_DIGITS + 1
              /\ StartsWith(rest, SubleafOpen)
              /\ AllHex(SubSeq(rest, Len(SubleafOpen) + 1, Len(SubleafOpen) + SUBLEAF_DIGITS))
              /\ rest[Len(rest)] = "]"
    IN  IF /\ StartsWith(text, CpuidOpen)
           /\ n >= 1
           /\ Len(text) >= last
           /\ SubSeq(text, o - 1, o) = ColonSpace
           /\ \A k \in 1..4 : AllHex(reg(k))
           /\ \A k \in 1..3 : text[o + k * (r + 1)] = "-"
        THEN Some([g1 |-> SubSeq(text, Len(CpuidOpen) + 1, Len(CpuidOpen) + n),
                   g2 |-> reg(1), g3 |-> reg(2), g4 |-> reg(3), g5 |-> reg(4),
                   g6 |-> IF sl
                          THEN Some(SubSeq(rest, Len(SubleafOpen) + 1,
                                           Len(SubleafOpen) + SUBLEAF_DIGITS))
                          ELSE None])
        ELSE None

\* try_match_cpuid: None, Some(InputLine::Cpuid), or the panic of hex_as_u32.
try_match_cpuid(text) ==
    LET m == CpuidCaptures(text)
    IN  IF m = None THEN None
        ELSE LET leaf == hex_as_u32(m.val.g1)
                 subleaf == IF m.val.g6 = None THEN Some(Zero(U32_BITS))
                            ELSE hex_as_u32(m.val.g6.val)
                 eax == hex_as_u32(m.val.g2)
                 ebx == hex_as_u32(m.val.g3)
                 ecx == hex_as_u32(m.val.g4)
                 edx == hex_as_u32(m.val.g5)
             IN  IF Panic \in {leaf, subleaf, eax, ebx, ecx, edx} THEN Panic
                 ELSE Some([kind |-> "Cpuid",
                            query |-> CpuidQuery(leaf.val, subleaf.val),
                            result |-> CpuidResult(eax.val, ebx.val, ecx.val, edx.val)])

(* The captures of MSR_RE, or None: "MSR ", one or more hex digits (1),     *)
(* ": ", 19 characters that are hex digits or "-" (2), then anything.       *)
MsrCaptures(text) ==
    LET n == HexRun(text, Len(MsrOpen) + 1)
        o == Len(MsrOpen) + n + Len(ColonSpace)
        value == SubSeq(text, o + 1, o + MSR_VALUE_CHARS)
    IN  IF /\ StartsWith(text, MsrOpen)
           /\ n >= 1
           /\ Len(text) >= o + MSR_VALUE_CHARS
           /\ SubSeq(text, o - 1, o) = ColonSpace
           /\ \A i \in 1..Len(value) : value[i] \in HexChars \cup {"-"}
        THEN Some([g1 |-> SubSeq(text, Len(MsrOpen) + 1, Len(MsrOpen) + n), g2 |-> value])
        ELSE None

\* try_match_msr: None, Some(InputLine::Msr), or the panic of hex_as_u32 / hex_as_u64.
try_match_msr(text) ==
    LET m == MsrCaptures(text)
    IN  IF m = None THEN None
        ELSE LET index == hex_as_u32(m.val.g1)
                 value == hex_as_u64(m.val.g2)
             IN  IF Panic \in {index, value} THEN Panic
                 ELSE Some([kind |-> "Msr", index |-> index.val, value |-> value.val])

(* InputLine::from_str: the first of header, CPUID, MSR that matches;       *)
(* None stands for Err(ParseAidaCpuidDumpError).                            *)
InputLine_from_str(text) ==
    LET h == try_match_group_header(text)
    IN  IF h # None THEN h
        ELSE LET c == try_match_cpuid(text)
             IN  IF c # None THEN c
                 ELSE try_match_msr(text)

-----------------------------------------------------------------------------
(* Dump parsing (aida_parse.rs).                                            *)

\* insert that keeps the value a key already has (entry(key).or_insert(value)).
insert_keep_first(map, key, value) ==
    [k \in DOMAIN map \cup {key} |-> IF k \in DOMAIN map THEN map[k] ELSE value]

\* Map::insert: a later value for a key replaces the earlier one.
insert(map, key, value) ==
    [k \in DOMAIN map \cup {key} |-> IF k = key THEN value ELSE map[k]]

RECURSIVE collect(_, _)
\* Iterator::collect into a Map, from a sequence of <<key, value>> pairs.
collect(pairs, map) ==
    IF pairs = <<>> THEN map
    ELSE collect(Tail(pairs), insert(map, Head(pairs)[1], Head(pairs)[2]))

\* fold_step that extends the first group (acc.first_mut()) instead of the last.
fold_step_first_group(acc, parsed_line) ==
    IF parsed_line.kind = "GroupHeader"
    THEN Append(acc, <<parsed_line.name, <<>>>>)
    ELSE [acc EXCEPT ![1] = <<@[1], Append(@[2], parsed_line)>>]

\* One step of the fold over the parsed lines.
fold_step(acc, parsed_line) ==
    IF parsed_line.kind = "GroupHeader"
    THEN Append(acc, <<parsed_line.name, <<>>>>)
    ELSE [acc EXCEPT ![Len(acc)] = <<@[1], Append(@[2], parsed_line)>>]

RECURSIVE fold(_, _)
fold(parsed_lines, acc) ==
    IF parsed_lines = <<>> THEN acc
    ELSE fold(Tail(parsed_lines), fold_step(acc, Head(parsed_lines)))

RECURSIVE map_from_str(_)
\* s.lines().map(InputLine::from_str): each line's outcome, in order.
map_from_str(lines) ==
    IF lines = <<>> THEN <<>>
    ELSE <<InputLine_from_str(Head(lines))>> \o map_from_str(Tail(lines))

RECURSIVE filter_map_ok(_)
\* filter_map(|line| ....ok()): the Ok values of a sequence of results, in order.
filter_map_ok(results) ==
    IF results = <<>> THEN <<>>
    ELSE (IF Head(results) = None THEN <<>> ELSE <<Head(results).val>>)
         \o filter_map_ok(Tail(results))

RECURSIVE filter_map_kind(_, _)
\* filter_map keeping the lines of one kind, as <<key, value>> pairs.
filter_map_kind(group_lines, kind) ==
    IF group_lines = <<>> THEN <<>>
    ELSE LET l == Head(group_lines)
         IN  (IF l.kind # kind THEN <<>>
              ELSE IF kind = "Cpuid" THEN << <<l.query, l.result>> >>
              ELSE << <<l.index, l.value>> >>)
             \o filter_map_kind(Tail(group_lines), kind)

LogicalCpu0 == <<"L", "o", "g", "i", "c", "a", "l", " ", "C", "P", "U", " ", "#", "0">>

MsrRegisters == <<"M", "S", "R", " ", "R", "e", "g", "i", "s", "t", "e", "r", "s">>

Err(at) == [tag |-> "Err", at |-> at]

\* has_duplicate_names looking only at the two groups the parser consults.
has_duplicate_consulted_names(groups_vec) ==
    \E i, j \in 1..Len(groups_vec) :
        /\ i < j
        /\ groups_vec[i][1] = groups_vec[j][1]
        /\ groups_vec[i][1] \in {LogicalCpu0, MsrRegisters}

\* groups_vec.len() != groups_vec.iter().map(|(k, _v)| k).collect::<Set<&String>>().len()
has_duplicate_names(groups_vec) ==
    Len(groups_vec) # Cardinality({groups_vec[i][1] : i \in 1..Len(groups_vec)})

Ok(cpuid_map, msr_map) == [tag |-> "Ok", cpuid |-> cpuid_map, msrs |-> msr_map]

(* AidaCpuidDump::from_str over the lines of the text.  A line whose        *)
(* conversion panics ends the call while the fold draws the lines.  The     *)
(* error value is opaque; `at` records which return produced it.            *)
AidaCpuidDump_from_str(lines) ==
    LET results == map_from_str(lines)
    IN  IF \E i \in 1..Len(results) : results[i] = Panic THEN Panic
        ELSE
        LET groups_vec == fold(filter_map_ok(results), << <<<<>>, <<>>>> >>)
            groups == collect(groups_vec, <<>>)
        IN  IF has_duplicate_names(groups_vec) THEN Err("duplicate group names")
            ELSE IF LogicalCpu0 \notin DOMAIN groups THEN Err("no Logical CPU #0")
            ELSE IF MsrRegisters \notin DOMAIN groups THEN Err("no MSR Registers")
            ELSE Ok(collect(filter_map_kind(groups[LogicalCpu0], "Cpuid"), <<>>),
                    collect(filter_map_kind(groups[MsrRegisters], "Msr"), <<>>))

-----------------------------------------------------------------------------
(* The line classifier on its own: one line of text, classified once.       *)

Text_CpuidLeaves ==
    { <<"0", "0", "0", "0", "0", "0", "0", "4">>,
      <<"8", "0", "0", "0", "0", "0", "1", "d">>,
      <<"0", "0", "0", "0", "0", "0", "0", "0", "B">>,
      <<"1", "0", "0", "0", "0", "0", "0", "0", "4">> }

Text_Registers ==
    { <<"1", "C", "0", "3", "C", "1", "6", "3", "-", "0", "3", "C", "0", "0", "0", "3", "F", "-",
        "0", "0", "0", "0", "3", "F", "F", "F", "-", "0", "0", "0", "0", "0", "0", "0", "6">>,
      <<"f", "f", "f", "f", "f", "f", "f", "f", "-", "7", "5", "6", "E", "6", "5", "4", "7", "-",
        "6", "C", "6", "5", "7", "4", "6", "E", "-", "4", "9", "6", "5", "6", "E", "6", "9">>,
      <<"1", "C", "0", "3", "C", "1", "6", "3", "-", "0", "3", "C", "0", "0", "0", "3", "F", "-",
        "0", "0", "0", "0", "3", "F", "F", "-", "0", "0", "0", "0", "0", "0", "0", "6">> }

Text_CpuidTails ==
    { <<>>,
      <<" ", "[", "S", "L", " ", "0", "3", "]">>,
      <<" ", "[", "S", "L", " ", "f", "E", "]">>,
      <<" ", "[", "S", "L", " ", "0", "3", "]", " ", "[", "x", "]">>,
      <<" ", "[", "S", "L", " ", "0", "3", "]", " ">>,
      <<" ", "[", "S", "L", " ", "3", "]">>,
      <<"[", "S", "L", " ", "0", "3", "]">>,
      <<" ", "[", "G", "e", "n", "u", "i", "n", "e", "I", "n", "t", "e", "l", "]">> }

Text_MsrIndices ==
    { <<"0", "0", "0", "0", "0", "1", "F", "C">>,
      <<"4", "8", "b">>,
      <<"1", "0", "0", "0", "0", "0", "3", "0", "0">> }

Text_MsrValues ==
    { <<"0", "0", "0", "0", "-", "0", "0", "0", "0", "-", "0", "0", "3", "0", "-", "1", "C", "C", "3">>,
      <<"F", "F", "F", "9", "-", "F", "F", "F", "E", "-", "0", "4", "0", "0", "-", "6", "1", "7", "2">>,
      <<"<", " ", "F", "A", "I", "L", "E", "D", " ", ">">>,
      <<"-", "-", "-", "-", "-", "-", "-", "-", "-", "-", "-", "-", "-", "-", "-", "-", "-", "-", "-">>,
      <<"1", "2", "3", "4", "5", "6", "7", "8", "9", "0", "A", "B", "C", "D", "E", "F", "0", "1", "2">>,
      <<"0", "0", "0", "1", "2", "3", "4", "5", "6", "7", "8", "9", "a", "b", "c", "d", "e", "f", "0">>,
      <<"0", "0", "0", "0", "-", "0", "0", "0", "0", "-", "0", "0", "3", "0", "-", "1", "C", "C">> }

Text_MsrTails == { <<>>, <<" ", "[", "S", "2", "0", "0", "]">>, <<"3">> }

Text_Names ==
    { LogicalCpu0, MsrRegisters, <<"x">>, <<>>, <<"a", " ", "]", "-", "-", "-", "-", "-", "-", " ", "b">> }

Text_Other ==
    { <<>>,
      <<"R", "a", "n", "d", "o", "m", " ", "o", "t", "h", "e", "r", " ", "i", "n", "p", "u", "t">>,
      <<" ">> \o HeaderOpen \o LogicalCpu0 \o HeaderClose,
      <<" ">> \o MsrOpen \o <<"4", "8", "b">> \o ColonSpace
          \o <<"0", "0", "0", "0", "-", "0", "0", "0", "0", "-", "0", "0", "3", "0", "-", "1", "C", "C", "3">>,
      CpuidOpen \o ColonSpace }

LineTexts ==
    { CpuidOpen \o leaf \o ColonSpace \o regs \o tail :
        leaf \in Text_CpuidLeaves, regs \in Text_Registers, tail \in Text_CpuidTails }
    \cup { MsrOpen \o index \o ColonSpace \o value \o tail :
        index \in Text_MsrIndices, value \in Text_MsrValues, tail \in Text_MsrTails }
    \cup { HeaderOpen \o name \o HeaderClose : name \in Text_Names }
    \cup Text_Other

LineInit ==
    /\ line \in LineTexts
    /\ parsed = NotRun
    /\ EvalIdle
    /\ DumpIdle
    /\ HexIdle
    /\ ModelIdle
    /\ FeatIdle

\* InputLine::from_str(line)
ParseLine ==
    /\ parsed = NotRun
    /\ parsed' = InputLine_from_str(line)
    /\ UNCHANGED <<line, evalVars, dumpVars, hexVars, modelVars, featVars>>

LineNext == ParseLine

LineSpec == LineInit /\ [][LineNext]_vars

-----------------------------------------------------------------------------
(* The dump parser: a text of up to MaxLines lines, drawn from the lines    *)
(* below, is read and then parsed.                                          *)

MaxLines == 4

\* ------[ Logical CPU #0 ]------
Line_Cpu0 ==
    <<"-", "-", "-", "-", "-", "-", "[", " ", "L", "o", "g", "i", "c", "a", "l", " ", "C", "P", "U", " ", "#", "0", " ", "]", "-", "-", "-", "-", "-", "-">>

\* ------[ Logical CPU #1 ]------
Line_Cpu1 ==
    <<"-", "-", "-", "-", "-", "-", "[", " ", "L", "o", "g", "i", "c", "a", "l", " ", "C", "P", "U", " ", "#", "1", " ", "]", "-", "-", "-", "-", "-", "-">>

\* ------[ MSR Registers ]------
Line_Msrs ==
    <<"-", "-", "-", "-", "-", "-", "[", " ", "M", "S", "R", " ", "R", "e", "g", "i", "s", "t", "e", "r", "s", " ", "]", "-", "-", "-", "-", "-", "-">>

\* CPUID 00000004: 1C03C163-03C0003F-00003FFF-00000006 [SL 03]
Line_CpuidA ==
    <<"C", "P", "U", "I", "D", " ", "0", "0", "0", "0", "0", "0", "0", "4", ":", " ", "1", "C", "0", "3", "C", "1", "6", "3", "-", "0", "3", "C", "0", "0", "0", "3", "F", "-", "0", "0", "0", "0", "3", "F", "F", "F", "-", "0", "0", "0", "0", "0", "0", "0", "6", " ", "[", "S", "L", " ", "0", "3", "]">>

\* CPUID 00000004: 1C004121-01C0003F-0000003F-00000000 [SL 03]
Line_CpuidB ==
    <<"C", "P", "U", "I", "D", " ", "0", "0", "0", "0", "0", "0", "0", "4", ":", " ", "1", "C", "0", "0", "4", "1", "2", "1", "-", "0", "1", "C", "0", "0", "0", "3", "F", "-", "0", "0", "0", "0", "0", "0", "3", "F", "-", "0", "0", "0", "0", "0", "0", "0", "0", " ", "[", "S", "L", " ", "0", "3", "]">>

\* CPUID 00000001: 000906ED-0E100800-7FFAFBBF-BFEBFBFF
Line_CpuidC ==
    <<"C", "P", "U", "I", "D", " ", "0", "0", "0", "0", "0", "0", "0", "1", ":", " ", "0", "0", "0", "9", "0", "6", "E", "D", "-", "0", "E", "1", "0", "0", "8", "0", "0", "-", "7", "F", "F", "A", "F", "B", "B", "F", "-", "B", "F", "E", "B", "F", "B", "F", "F">>

\* MSR 000001FC: 0000-0000-0030-1CC3
Line_MsrA ==
    <<"M", "S", "R", " ", "0", "0", "0", "0", "0", "1", "F", "C", ":", " ", "0", "0", "0", "0", "-", "0", "0", "0", "0", "-", "0", "0", "3", "0", "-", "1", "C", "C", "3">>

\* MSR 000001FC: FFF9-FFFE-0400-6172 [S200]
Line_MsrB ==
    <<"M", "S", "R", " ", "0", "0", "0", "0", "0", "1", "F", "C", ":", " ", "F", "F", "F", "9", "-", "F", "F", "F", "E", "-", "0", "4", "0", "0", "-", "6", "1", "7", "2", " ", "[", "S", "2", "0", "0", "]">>

\* MSR 00000300: < FAILED >
Line_MsrFailed ==
    <<"M", "S", "R", " ", "0", "0", "0", "0", "0", "3", "0", "0", ":", " ", "<", " ", "F", "A", "I", "L", "E", "D", " ", ">">>

\* MSR 00000300: -------------------
Line_MsrHyphens ==
    <<"M", "S", "R", " ", "0", "0", "0", "0", "0", "3", "0", "0", ":", " ", "-", "-", "-", "-", "-", "-", "-", "-", "-", "-", "-", "-", "-", "-", "-", "-", "-", "-", "-">>

DumpLines ==
    { Line_Cpu0, Line_Cpu1, Line_Msrs, Line_CpuidA, Line_CpuidB, Line_CpuidC,
      Line_MsrA, Line_MsrB, Line_MsrFailed, Line_MsrHyphens }

Init ==
    /\ input = <<>>
    /\ dump = NotRun
    /\ EvalIdle
    /\ LineIdle
    /\ HexIdle
    /\ ModelIdle
    /\ FeatIdle

\* One more line of the text handed to from_str.
ReadLine ==
    /\ dump = NotRun
    /\ Len(input) < MaxLines
    /\ \E l \in DumpLines : input' = Append(input, l)
    /\ UNCHANGED <<dump, evalVars, lineVars, hexVars, modelVars, featVars>>

\* AidaCpuidDump::from_str(input)
Parse ==
    /\ dump = NotRun
    /\ dump' = AidaCpuidDump_from_str(input)
    /\ UNCHANGED <<input, evalVars, lineVars, hexVars, modelVars, featVars>>

Next == ReadLine \/ Parse

Spec == Init /\ [][Next]_vars

-----------------------------------------------------------------------------
(* Properties of the dump parser, checked under Spec.  They read the text   *)
(* line by line: a line's group is named by the last header before it.      *)

IsHeader(text) == try_match_group_header(text) # None

HeaderName(text) == try_match_group_header(text).val.name

HeaderCount(lines, name) ==
    Cardinality({i \in 1..Len(lines) : IsHeader(lines[i]) /\ HeaderName(lines[i]) = name})

HasDuplicateHeader(lines) ==
    \E i, j \in 1..Len(lines) :
        /\ i < j
        /\ IsHeader(lines[i])
        /\ IsHeader(lines[j])
        /\ HeaderName(lines[i]) = HeaderName(lines[j])

Maximum(S) == CHOOSE x \in S : \A y \in S : y <= x

\* The name of the group line i falls under; the unnamed group has the empty name.
GroupOf(lines, i) ==
    LET before == {j \in 1..(i - 1) : IsHeader(lines[j])}
    IN  IF before = {} THEN <<>> ELSE HeaderName(lines[Maximum(before)])

\* The positions of the recognised lines of one kind under the header `group`.
DataLines(lines, group, kind) ==
    {i \in 1..Len(lines) :
        /\ ~IsHeader(lines[i])
        /\ GroupOf(lines, i) = group
        /\ LET r == InputLine_from_str(lines[i])
           IN  r.tag = "Some" /\ r.val.kind = kind}

ParsedLine(lines, i) == InputLine_from_str(lines[i]).val

(* C4: parsing fails whenever two group headers of the input carry the same *)
(* name, also for a name the parser does not consult and also when both     *)
(* required groups are present; and a dump whose header names are pairwise  *)
(* distinct never fails at the duplicate check.                             *)
C4_DuplicateHeadersFail ==
    dump # NotRun =>
        IF HasDuplicateHeader(input)
        THEN dump.tag # "Ok" /\ (dump # Panic => dump = Err("duplicate group names"))
        ELSE dump # Err("duplicate group names")

\* C4's case: both required groups present, an unconsulted header twice.
C4_Witness ==
    /\ input = <<Line_Cpu0, Line_Msrs, Line_Cpu1, Line_Cpu1>>
    /\ dump = Err("duplicate group names")

(* C5: parsing fails without a `Logical CPU #0` header and fails without a  *)
(* `MSR Registers` header, and no Dump is returned then; a dump with both   *)
(* headers exactly once and no repeated header name parses successfully,    *)
(* also when a required group has no data lines.                            *)
C5_RequiredGroups ==
    dump # NotRun =>
        /\ HeaderCount(input, LogicalCpu0) = 0 => dump.tag # "Ok"
        /\ HeaderCount(input, MsrRegisters) = 0 => dump.tag # "Ok"
        /\ ( /\ HeaderCount(input, LogicalCpu0) = 1
             /\ HeaderCount(input, MsrRegisters) = 1
             /\ ~HasDuplicateHeader(input) ) => dump.tag = "Ok"

(* C6: when the selected group holds several lines with the same key, the   *)
(* mapping holds one entry for the key, with the value of the last such     *)
(* line in input order.                                                     *)
C6_LastDuplicateWins ==
    dump.tag = "Ok" =>
        /\ \A i \in DataLines(input, MsrRegisters, "Msr") :
            LET l == ParsedLine(input, i)
            IN  (\A j \in DataLines(input, MsrRegisters, "Msr") :
                    ParsedLine(input, j).index = l.index => j <= i)
                => (l.index \in DOMAIN dump.msrs /\ dump.msrs[l.index] = l.value)
        /\ \A i \in DataLines(input, LogicalCpu0, "Cpuid") :
            LET l == ParsedLine(input, i)
            IN  (\A j \in DataLines(input, LogicalCpu0, "Cpuid") :
                    ParsedLine(input, j).query = l.query => j <= i)
                => (l.query \in DOMAIN dump.cpuid /\ dump.cpuid[l.query] = l.result)

\* C6's case: MSR 0x1FC twice with different values; the second is kept.
C6_Witness ==
    /\ input = <<Line_Cpu0, Line_Msrs, Line_MsrA, Line_MsrB>>
    /\ dump.tag = "Ok"
    /\ dump.msrs = (<<0, 0, 0, 0, 0, 1, 15, 12>> :>
                        <<15, 15, 15, 9, 15, 15, 15, 14, 0, 4, 0, 0, 6, 1, 7, 2>>)

(* C7: after a successful parse the CPUID mapping has an entry for a query  *)
(* exactly when a CPUID line with that query lies between the               *)
(* `Logical CPU #0` header and the next header, and the MSR mapping has an  *)
(* index exactly when an MSR line with it lies between the `MSR Registers`  *)
(* header and the next header; other lines contribute nothing.              *)
C7_OnlySelectedGroups ==
    dump.tag = "Ok" =>
        /\ DOMAIN dump.cpuid =
              {ParsedLine(input, i).query : i \in DataLines(input, LogicalCpu0, "Cpuid")}
        /\ DOMAIN dump.msrs =
              {ParsedLine(input, i).index : i \in DataLines(input, MsrRegisters, "Msr")}

\* C7's case: a CPUID line before the first header and an MSR line in the CPU group.
C7_Witness ==
    /\ input = <<Line_CpuidA, Line_Cpu0, Line_MsrA, Line_Msrs>>
    /\ dump.tag = "Ok"
    /\ DOMAIN dump.cpuid = {}
    /\ DOMAIN dump.msrs = {}

(* C8: a malformed line never makes parsing fail or abort: for every input  *)
(* whose header names are distinct and include both required groups,        *)
(* parsing returns a Dump, and a line that is not well formed contributes   *)
(* no entry: the lines `MSR 00000300: < FAILED >` (an error marker) and     *)
(* `MSR 00000300: -------------------` (a value field of hyphens only) are  *)
(* dropped, so the Dump has no entry for MSR 0x300.                         *)
C8_MalformedLinesSkipped ==
    ( /\ dump # NotRun
      /\ ~HasDuplicateHeader(input)
      /\ HeaderCount(input, LogicalCpu0) >= 1
      /\ HeaderCount(input, MsrRegisters) >= 1 ) =>
        /\ dump.tag = "Ok"
        /\ <<0, 0, 0, 0, 0, 3, 0, 0>> \notin DOMAIN dump.msrs

(* Properties of the line classifier, checked under LineSpec.              *)

\* The digits of text as a w-bit number, read by position.
HexNumber(text, w) ==
    [i \in 1..Digits(w) |->
        LET k == Len(text) - Digits(w) + i
        IN  IF k >= 1 THEN HexDigitValue[text[k]] ELSE 0]

FirstColon(text) == CHOOSE p \in 1..Len(text) : text[p] = ":" /\ \A q \in 1..(p - 1) : text[q] # ":"

(* C9: for every recognised CPUID line the subleaf is the value of the two  *)
(* hex digits of its [SL xx] suffix when that suffix follows the four       *)
(* register values (also when more annotation text follows the suffix),     *)
(* and 0 when there is no [SL ..] suffix; the leaf and the four registers   *)
(* are the hex values written on the line.  Checked under LineSpec.         *)
C9_SubleafFromSuffix ==
    (parsed.tag = "Some" /\ parsed.val.kind = "Cpuid") =>
        LET p == FirstColon(line)
            field(k) == SubSeq(line, p + 2 + (k - 1) * 9, p + 1 + (k - 1) * 9 + 8)
            tail == SubSeq(line, p + 37, Len(line))
            suffixed == /\ Len(tail) >= 8
                        /\ SubSeq(tail, 1, 5) = <<" ", "[", "S", "L", " ">>
                        /\ tail[6] \in HexChars
                        /\ tail[7] \in HexChars
                        /\ tail[8] = "]"
        IN  /\ parsed.val.query.leaf = HexNumber(SubSeq(line, 7, p - 1), 32)
            /\ parsed.val.query.subleaf =
                  (IF suffixed THEN HexNumber(SubSeq(tail, 6, 7), 32) ELSE HexNumber(<<>>, 32))
            /\ parsed.val.result =
                  CpuidResult(HexNumber(field(1), 32), HexNumber(field(2), 32),
                              HexNumber(field(3), 32), HexNumber(field(4), 32))

-----------------------------------------------------------------------------
(* Hex conversion on its own: a text of up to MaxPieces pieces is put       *)
(* together and then converted at both widths.                              *)

MaxPieces == 5

HexPieces ==
    { <<"-">>, <<"0">>, <<"7">>, <<"f", "E">>, <<"F", "F", "F", "9">>,
      <<"6", "1", "7", "2", "-">> }

RECURSIVE Concat(_)
Concat(pieces) == IF pieces = <<>> THEN <<>> ELSE Head(pieces) \o Concat(Tail(pieces))

HexInit ==
    /\ hexIn = <<>>
    /\ hexOut = NotRun
    /\ EvalIdle
    /\ DumpIdle
    /\ LineIdle
    /\ ModelIdle
    /\ FeatIdle

\* One more piece of the text.
Push ==
    /\ hexOut = NotRun
    /\ Len(hexIn) < MaxPieces
    /\ \E piece \in HexPieces : hexIn' = Append(hexIn, piece)
    /\ UNCHANGED <<hexOut, evalVars, dumpVars, lineVars, modelVars, featVars>>

\* hex_as_u32(text) and hex_as_u64(text)
Convert ==
    /\ hexOut = NotRun
    /\ hexOut' = [tag |-> "Done",
                  u32 |-> hex_as_u32(Concat(hexIn)),
                  u64 |-> hex_as_u64(Concat(hexIn))]
    /\ UNCHANGED <<hexIn, evalVars, dumpVars, lineVars, modelVars, featVars>>

HexNext == Push \/ Convert

HexSpec == HexInit /\ [][HexNext]_vars

RECURSIVE DigitString(_)
\* The hyphen-free digit string of a text.
DigitString(text) ==
    IF text = <<>> THEN <<>>
    ELSE IF Head(text) = "-" THEN DigitString(Tail(text))
    ELSE <<Head(text)>> \o DigitString(Tail(text))

(* C10: hex conversion removes every hyphen and reads the remaining digits  *)
(* as one base-16 number: for a text of 1 to 8 hex digits (32-bit) or 1 to  *)
(* 16 hex digits (64-bit), with hyphens at any positions, the result is the *)
(* value of the hyphen-free digit string, neither truncated nor wrapped.    *)
(* Checked under HexSpec.                                                   *)
C10_HexIgnoresHyphens ==
    hexOut # NotRun =>
        LET digits == DigitString(Concat(hexIn))
        IN  /\ Len(digits) \in 1..8 => hexOut.u32 = Some(HexNumber(digits, 32))
            /\ Len(digits) \in 1..16 => hexOut.u64 = Some(HexNumber(digits, 64))

\* C10's case: -FFF96172-FFF96172- is 0xFFF9_6172_FFF9_6172, its top 16 bits the first group.
C10_Witness ==
    /\ hexIn = << <<"-">>, <<"F", "F", "F", "9">>, <<"6", "1", "7", "2", "-">>,
                  <<"F", "F", "F", "9">>, <<"6", "1", "7", "2", "-">> >>
    /\ hexOut # NotRun
    /\ hexOut.u64 = Some(<<15, 15, 15, 9, 6, 1, 7, 2, 15, 15, 15, 9, 6, 1, 7, 2>>)
    /\ hexOut.u32 = Panic

-----------------------------------------------------------------------------
(* The model name (cpu_information.rs): the provided methods of the         *)
(* CpuInformation trait that read the extended leaves.                      *)

\* impl From<u32> for CpuidQuery
CpuidQuery_from(leaf) == CpuidQuery(leaf, Zero(U32_BITS))

\* a < b on two unsigned numbers of the same width.
LessThan(a, b) ==
    \E i \in 1..Len(a) :
        /\ a[i] < b[i]
        /\ \A j \in 1..(i - 1) : a[j] = b[j]

\* u32::to_le_bytes: the least significant byte first.
to_le_bytes(dw) ==
    <<16 * dw[7] + dw[8], 16 * dw[5] + dw[6], 16 * dw[3] + dw[4], 16 * dw[1] + dw[2]>>

RECURSIVE flat_map_to_le_bytes(_)
\* dwords.iter().flat_map(|dw| dw.to_le_bytes())
flat_map_to_le_bytes(dwords) ==
    IF dwords = <<>> THEN <<>>
    ELSE to_le_bytes(Head(dwords)) \o flat_map_to_le_bytes(Tail(dwords))

RECURSIVE take_while_nonzero(_)
\* .take_while(|c| *c != 0)
take_while_nonzero(bytes) ==
    IF bytes = <<>> \/ Head(bytes) = 0 THEN <<>>
    ELSE <<Head(bytes)>> \o take_while_nonzero(Tail(bytes))

RECURSIVE trim_end_zeros(_)
\* The bytes without the zero bytes at their end.
trim_end_zeros(bytes) ==
    IF bytes = <<>> \/ bytes[Len(bytes)] # 0 THEN bytes
    ELSE trim_end_zeros(SubSeq(bytes, 1, Len(bytes) - 1))

\* dwords_to_bytes dropping only the zero bytes at the end, as its comment has it.
dwords_to_bytes_trim_end(dwords) == trim_end_zeros(flat_map_to_le_bytes(dwords))

\* dwords_to_bytes
dwords_to_bytes(dwords) == take_while_nonzero(flat_map_to_le_bytes(dwords))

\* 0x8000_0000, 0x8000_0002, 0x8000_0003, 0x8000_0004
Leaf_80000000 == W32(8,0,0,0,0,0,0,0)

Leaf_80000002 == W32(8,0,0,0,0,0,0,2)

Leaf_80000003 == W32(8,0,0,0,0,0,0,3)

Leaf_80000004 == W32(8,0,0,0,0,0,0,4)

\* CpuInformation::max_extended_leaf
max_extended_leaf(cpu_info) ==
    LET r == cpuid(cpu_info, CpuidQuery_from(Leaf_80000000))
    IN  IF r = None THEN Leaf_80000000 ELSE r.val.eax

\* CpuInformation::model_bytes
model_bytes(cpu_info) ==
    IF LessThan(max_extended_leaf(cpu_info), Leaf_80000004) THEN None
    ELSE
    LET r1 == cpuid(cpu_info, CpuidQuery_from(Leaf_80000002))
        r2 == cpuid(cpu_info, CpuidQuery_from(Leaf_80000003))
        r3 == cpuid(cpu_info, CpuidQuery_from(Leaf_80000004))
    IN  IF r1 = None THEN None
        ELSE IF r2 = None THEN None
        ELSE IF r3 = None THEN None
        ELSE Some(dwords_to_bytes(<<r1.val.eax, r1.val.ebx, r1.val.ecx, r1.val.edx,
                                    r2.val.eax, r2.val.ebx, r2.val.ecx, r2.val.edx,
                                    r3.val.eax, r3.val.ebx, r3.val.ecx, r3.val.edx>>))

-----------------------------------------------------------------------------
(* The model name on its own: a data source over the four extended leaves   *)
(* model_bytes asks for, each known or unknown.                             *)

\* eax of leaf 0x8000_0000: below, at and above 0x8000_0004, and 0x0000_0005.
ModelMaxLeaves ==
    { W32(8,0,0,0,0,0,0,3), W32(8,0,0,0,0,0,0,4), W32(8,0,0,0,0,0,0,8),
      W32(0,0,0,0,0,0,0,5), W32(9,0,0,0,0,0,0,0) }

ModelMaxResults == { CpuidResult(eax, Zero(U32_BITS), Zero(U32_BITS), Zero(U32_BITS)) : eax \in ModelMaxLeaves }

\* "AMD Ryzen 7 5700" : no zero byte.
NameText ==
    CpuidResult(W32(2,0,4,4,4,13,4,1), W32(6,5,7,10,7,9,5,2),
                W32(2,0,3,7,2,0,6,14), W32(3,0,3,0,3,7,3,5))

\* "Ab", two zero bytes, then "CCCC", "DDDD", "EEE" and a zero byte.
NameCut ==
    CpuidResult(W32(0,0,0,0,6,2,4,1), W32(4,3,4,3,4,3,4,3),
                W32(4,4,4,4,4,4,4,4), W32(0,0,4,5,4,5,4,5))

\* "G 8-Core", then eight zero bytes.
NameEnd ==
    CpuidResult(W32(2,13,3,8,2,0,4,7), W32(6,5,7,2,6,15,4,3),
                Zero(U32_BITS), Zero(U32_BITS))

NameZero == CpuidResult(Zero(U32_BITS), Zero(U32_BITS), Zero(U32_BITS), Zero(U32_BITS))

ModelInfos ==
    { [cpuid |-> (CpuidQuery_from(Leaf_80000000) :> c0) @@ (CpuidQuery_from(Leaf_80000002) :> c2)
                 @@ (CpuidQuery_from(Leaf_80000003) :> c3) @@ (CpuidQuery_from(Leaf_80000004) :> c4),
       rdmsr |-> <<>>] :
        c0 \in Options(ModelMaxResults),
        c2 \in Options({NameText, NameCut, NameZero}),
        c3 \in Options({NameText, NameCut}),
        c4 \in Options({NameText, NameEnd, NameZero}) }

ModelInit ==
    /\ cpu \in ModelInfos
    /\ model = NotRun
    /\ EvalIdle
    /\ DumpIdle
    /\ LineIdle
    /\ HexIdle
    /\ FeatIdle

\* cpu.model_bytes()
ModelBytes ==
    /\ model = NotRun
    /\ model' = model_bytes(cpu)
    /\ UNCHANGED <<cpu, evalVars, dumpVars, lineVars, hexVars, featVars>>

ModelNext == ModelBytes

ModelSpec == ModelInit /\ [][ModelNext]_vars

\* The upper and the lower half of a u32 as numbers.
UpperHalf(x) == ((x[1] * 16 + x[2]) * 16 + x[3]) * 16 + x[4]

LowerHalf(x) == ((x[5] * 16 + x[6]) * 16 + x[7]) * 16 + x[8]

AtLeast(x, y) ==
    \/ UpperHalf(x) > UpperHalf(y)
    \/ UpperHalf(x) = UpperHalf(y) /\ LowerHalf(x) >= LowerHalf(y)

\* Byte k (0 the least significant) of a u32.
ByteOf(x, k) == x[7 - 2 * k] * 16 + x[8 - 2 * k]

\* Byte n (from 1) of the registers eax, ebx, ecx, edx of the leaves in order.
NameByte(leaves, n) ==
    LET r == leaves[((n - 1) \div 16) + 1]
        reg == <<r.eax, r.ebx, r.ecx, r.edx>>[(((n - 1) % 16) \div 4) + 1]
    IN  ByteOf(reg, (n - 1) % 4)

-----------------------------------------------------------------------------
(* The MSR-only feature tool (main.rs): a feature is a list of MSR bit      *)
(* masks, looked up in the list of MSR values parsed from the input.        *)

MsrValue(index, value) == [index |-> index, value |-> value]

MsrMatch(index, must_be_set) == [index |-> index, must_be_set |-> must_be_set]

RECURSIVE find(_, _)
\* msr_values.iter().find(|&m| m.index == index)
find(values, index) ==
    IF values = <<>> THEN None
    ELSE IF Head(values).index = index THEN Some(Head(values))
    ELSE find(Tail(values), index)

\* does_match
does_match(values, msr_match) ==
    LET m == find(values, msr_match.index)
    IN  IF m = None THEN None
        ELSE Some(BitAnd(m.val.value, msr_match.must_be_set) = msr_match.must_be_set)

\* The closure of has_feature's fold with a failed requirement ending the fold.
and_then_short_circuit(acc, n) ==
    IF acc = None THEN None
    ELSE IF ~acc.val THEN Some(FALSE)
    ELSE n

\* acc.and_then(|b| n.map(|c| b && c)), the closure of has_feature's fold
and_then(acc, n) ==
    IF acc = None THEN None
    ELSE IF n = None THEN None
    ELSE Some(acc.val /\ n.val)

RECURSIVE fold_and_then(_, _, _)
\* .map(|m| does_match(msr_values, m)).fold(acc, ...)
fold_and_then(must_match, values, acc) ==
    IF must_match = <<>> THEN acc
    ELSE fold_and_then(Tail(must_match), values,
                       and_then(acc, does_match(values, Head(must_match))))

\* has_feature
has_feature(values, must_match) == fold_and_then(must_match, values, Some(TRUE))

\* tristate_to_char
tristate_to_char(tristate) ==
    IF tristate = None THEN "?"
    ELSE IF tristate.val THEN "Y" ELSE "N"

-----------------------------------------------------------------------------
(* The feature tool on its own: up to MaxValues MSR values are read, a      *)
(* feature of up to MaxMatches requirements is put together and looked up.  *)

MaxValues == 3

MaxMatches == 2

\* 0x48b and 0x481, the indices of the FEATURES table.
FeatIndices == { W32(0,0,0,0,0,4,8,11), W32(0,0,0,0,0,4,8,1) }

\* 0x0000_0002_0000_0000 and 0x0000_0003_0000_0000
FeatValues == { <<0,0,0,0, 0,0,0,2, 0,0,0,0, 0,0,0,0>>, <<0,0,0,0, 0,0,0,3, 0,0,0,0, 0,0,0,0>> }

\* 1 << (32 + 1), and the two bits 32 and 33 together.
FeatMasks == { ShlOne(U64_BITS, 33), <<0,0,0,0, 0,0,0,3, 0,0,0,0, 0,0,0,0>> }

FeatInit ==
    /\ msr_values = <<>>
    /\ feature = <<>>
    /\ present = NotRun
    /\ EvalIdle
    /\ DumpIdle
    /\ LineIdle
    /\ HexIdle
    /\ ModelIdle

\* One more parsed MSR line collected by main.
ReadMsr ==
    /\ present = NotRun
    /\ Len(msr_values) < MaxValues
    /\ \E index \in FeatIndices, value \in FeatValues :
        msr_values' = Append(msr_values, MsrValue(index, value))
    /\ UNCHANGED <<feature, present, evalVars, dumpVars, lineVars, hexVars, modelVars>>

\* One more entry of the feature's must_match.
Require ==
    /\ present = NotRun
    /\ Len(feature) < MaxMatches
    /\ \E index \in FeatIndices, must_be_set \in FeatMasks :
        feature' = Append(feature, MsrMatch(index, must_be_set))
    /\ UNCHANGED <<msr_values, present, evalVars, dumpVars, lineVars, hexVars, modelVars>>

\* tristate_to_char(has_feature(&msr_values, feature))
HasFeature ==
    /\ present = NotRun
    /\ present' = [tag |-> "Done",
                   has |-> has_feature(msr_values, feature),
                   char |-> tristate_to_char(has_feature(msr_values, feature))]
    /\ UNCHANGED <<msr_values, feature, evalVars, dumpVars, lineVars, hexVars, modelVars>>

FeatNext == ReadMsr \/ Require \/ HasFeature

FeatSpec == FeatInit /\ [][FeatNext]_vars

\* The positions of the list entries with an index.
EntriesWith(index) == { j \in 1..Len(msr_values) : msr_values[j].index = index }

\* The value of the first list entry with an index.
FirstValue(index) ==
    msr_values[CHOOSE j \in EntriesWith(index) : \A k \in EntriesWith(index) : j <= k].value

(* C12: has_feature returns unknown if and only if at least one MSR index   *)
(* required by the feature is missing from the list, wherever that          *)
(* requirement stands and whether or not another requirement already        *)
(* failed; otherwise it returns true exactly when, for every requirement,   *)
(* all bits of must_be_set are set in the value of the first list entry     *)
(* with that index; a feature with no requirements is present.  Checked     *)
(* under FeatSpec.                                                          *)
C12_HasFeature ==
    present # NotRun =>
        LET missing == \E i \in 1..Len(feature) : EntriesWith(feature[i].index) = {}
            holds(i) == \A k \in 0..(U64_BITS - 1) :
                            BitIsSet(feature[i].must_be_set, k)
                                => BitIsSet(FirstValue(feature[i].index), k)
        IN  /\ (present.has = None) <=> missing
            /\ ~missing => present.has = Some(\A i \in 1..Len(feature) : holds(i))
            /\ feature = <<>> => present.has = Some(TRUE)

(* C12's case: the first requirement fails on the first 0x48b entry (a later *)
(* entry would satisfy it), the second asks for 0x481, which is missing.     *)
C12_Witness ==
    /\ msr_values = << MsrValue(W32(0,0,0,0,0,4,8,11), <<0,0,0,0, 0,0,0,2, 0,0,0,0, 0,0,0,0>>),
                       MsrValue(W32(0,0,0,0,0,4,8,11), <<0,0,0,0, 0,0,0,3, 0,0,0,0, 0,0,0,0>>) >>
    /\ feature = << MsrMatch(W32(0,0,0,0,0,4,8,11), <<0,0,0,0, 0,0,0,3, 0,0,0,0, 0,0,0,0>>),
                    MsrMatch(W32(0,0,0,0,0,4,8,1), ShlOne(U64_BITS, 33)) >>
    /\ present # NotRun
    /\ present.has = None
=============================================================================
